---- MODULE Spec2Model ----
(***************************************************************************)
(* Model of src/server.js: the e-mail table loaded at startup, the matcher *)
(* findPIEmail, the /health probe and the /api/search relay.               *)
(*                                                                         *)
(* JavaScript strings are sequences of one-character strings, so that      *)
(* trim, toUpperCase, toLowerCase, includes and join are computed.         *)
(* JavaScript values are tagged records [t, v]: t is the type, v the       *)
(* characters of a string or of a number's decimal form, or the elements   *)
(* of an array.                                                            *)
(***************************************************************************)
EXTENDS Integers, Sequences, FiniteSets, TLC

\* ------------------------------------------------------------------ bounds
\* longest e-mail table the spreadsheet holds
MaxRows == 2
\* longest results array of an upstream response
MaxResults == 2
\* /api/search requests in flight at once
MaxReqs == 2

\* --------------------------------------------------------------- strings
LowerLetters == <<"a","b","c","d","e","f","g","h","i","j","k","l","m",
                  "n","o","p","q","r","s","t","u","v","w","x","y","z">>
UpperLetters == <<"A","B","C","D","E","F","G","H","I","J","K","L","M",
                  "N","O","P","Q","R","S","T","U","V","W","X","Y","Z">>
WhiteSpace == {" "}

IndexIn(c, letters) == CHOOSE i \in 1..Len(letters) : letters[i] = c

\* the upper-case and lower-case forms of the letters
UpperOf ==
  [c \in {LowerLetters[i] : i \in 1..Len(LowerLetters)} |->
     UpperLetters[IndexIn(c, LowerLetters)]]
LowerOf ==
  [c \in {UpperLetters[i] : i \in 1..Len(UpperLetters)} |->
     LowerLetters[IndexIn(c, UpperLetters)]]

toUpperChar(c) == IF c \in DOMAIN UpperOf THEN UpperOf[c] ELSE c

toLowerChar(c) == IF c \in DOMAIN LowerOf THEN LowerOf[c] ELSE c

toUpperCase(s) == [i \in 1..Len(s) |-> toUpperChar(s[i])]

toLowerCase(s) == [i \in 1..Len(s) |-> toLowerChar(s[i])]

\* String.prototype.trim: drop leading and trailing white space
trim(s) ==
  LET solid == {i \in 1..Len(s) : s[i] \notin WhiteSpace}
  IN IF solid = {} THEN <<>>
     ELSE LET lo == CHOOSE i \in solid : \A j \in solid : i <= j
              hi == CHOOSE i \in solid : \A j \in solid : j <= i
          IN SubSeq(s, lo, hi)

\* String.prototype.includes
includes(hay, needle) ==
  \E i \in 0..(Len(hay) - Len(needle)) : SubSeq(hay, i + 1, i + Len(needle)) = needle

RECURSIVE join(_, _)
\* Array.prototype.join
join(list, sep) ==
  IF Len(list) = 0 THEN <<>>
  ELSE IF Len(list) = 1 THEN list[1]
  ELSE list[1] \o sep \o join(Tail(list), sep)

RECURSIVE uniq(_, _)
uniq(list, seen) ==
  IF Len(list) = 0 THEN <<>>
  ELSE IF list[1] \in seen THEN uniq(Tail(list), seen)
  ELSE <<list[1]>> \o uniq(Tail(list), seen \cup {list[1]})

\* [...new Set(list)]: the distinct elements in order of first insertion
newSet(list) == uniq(list, {})

\* ------------------------------------------------------- JavaScript values
Str(s) == [t |-> "string", v |-> s]
Num(digits) == [t |-> "number", v |-> digits]
Arr(elems) == [t |-> "array", v |-> elems]
Undefined == [t |-> "undefined", v |-> <<>>]
Null == [t |-> "null", v |-> <<>>]
\* a TypeError in flight (x.trim is not a function, reading a property of undefined)
Throw == [t |-> "throw", v |-> <<>>]

\* ToBoolean
Truthy(x) ==
  CASE x.t = "string" -> x.v # <<>>
    [] x.t = "number" -> x.v # <<"0">>
    [] x.t = "array" -> TRUE
    [] OTHER -> FALSE

\* a || b
Or(a, b) == IF Truthy(a) THEN a ELSE b

\* String(x) and `${x}`
String(x) ==
  CASE x.t = "string" -> x.v
    [] x.t = "number" -> x.v
    [] x.t = "null" -> <<"n","u","l","l">>
    [] OTHER -> <<"u","n","d","e","f","i","n","e","d">>

VARIABLES
  isDevelopment,   \* process.env.NODE_ENV !== 'production'
  requireDefined,  \* whether the runtime binds `require` in the module's scope
  spreadsheet,     \* the file at emailDbPath: missing, corrupt, or its rows
  emailDatabase,   \* the e-mail table: Null or Arr(rows)
  phase,           \* "init" before the module body has run, then "serving"
  pc,              \* per request slot: "idle", "awaiting", "done"
  calls,           \* per request slot: axios.post calls issued
  responses,       \* per request slot: HTTP responses written
  lastResponse,    \* the HTTP response written last, with what it answers
  lookup           \* the last direct call of findPIEmail and its outcome

vars == <<isDevelopment, requireDefined, spreadsheet, emailDatabase, phase,
          pc, calls, responses, lastResponse, lookup>>

env == <<isDevelopment, requireDefined, spreadsheet>>

\* ---------------------------------------------------------- e-mail table
Row(first, last, all, email) ==
  [ContactPIFirstName |-> first, ContactPILastName |-> last,
   PINamesAll |-> all, ContactPIEmail |-> email]

\* String(x || '').toUpperCase(), the normalization without its trim
normalizeNoTrim(x) == toUpperCase(String(Or(x, Str(<<>>))))

\* String(x || '').trim().toUpperCase()
normalize(x) == toUpperCase(trim(String(Or(x, Str(<<>>)))))

\* the filter callback of the exact search
exactMatch(row, firstName, lastName) ==
  LET rowFirstName == normalize(row.ContactPIFirstName)
      rowLastName == normalize(row.ContactPILastName)
      searchFirstName == normalize(firstName)
      searchLastName == normalize(lastName)
  IN rowFirstName = searchFirstName /\ rowLastName = searchLastName

matches(firstName, lastName) ==
  SelectSeq(emailDatabase.v, LAMBDA row : exactMatch(row, firstName, lastName))

\* `${firstName} ${lastName}`.toUpperCase()
fullName(firstName, lastName) ==
  toUpperCase(String(firstName) \o <<" ">> \o String(lastName))

fullNameMatches(firstName, lastName) ==
  SelectSeq(emailDatabase.v,
            LAMBDA row : includes(toUpperCase(String(Or(row.PINamesAll, Str(<<>>)))),
                                  fullName(firstName, lastName)))

\* email && email.trim(): a truthy value that is no string has no trim
trimThrows(ms) ==
  \E i \in 1..Len(ms) :
     Truthy(ms[i].ContactPIEmail) /\ ms[i].ContactPIEmail.t # "string"

\* [...new Set(ms.map(..).filter(..).map(..))]
uniqueEmails(ms) ==
  LET emails == [i \in 1..Len(ms) |-> ms[i].ContactPIEmail]
      kept == SelectSeq(emails, LAMBDA email : Truthy(email) /\ trim(email.v) # <<>>)
  IN newSet([i \in 1..Len(kept) |-> toLowerCase(trim(kept[i].v))])

Separator == <<";", " ">>

\* the try block of findPIEmail: a value, or Throw
findPIEmailTry(firstName, lastName) ==
  LET ms == matches(firstName, lastName)
      fs == fullNameMatches(firstName, lastName)
  IN IF Len(ms) = 0
       THEN IF Len(fs) > 0
              THEN IF trimThrows(fs) THEN Throw
                   ELSE Str(join(uniqueEmails(fs), Separator))
              ELSE Null
       ELSE IF trimThrows(ms) THEN Throw
            ELSE Str(join(uniqueEmails(ms), Separator))

\* findPIEmail reading the table before its null guard, outside the try
findPIEmailUnguarded(firstName, lastName) ==
  IF ~Truthy(emailDatabase) THEN Throw
  ELSE LET r == findPIEmailTry(firstName, lastName)
       IN IF r.t = "throw" THEN Null ELSE r

\* findPIEmail without its catch
findPIEmailNoCatch(firstName, lastName) ==
  IF ~Truthy(emailDatabase) THEN Null
  ELSE findPIEmailTry(firstName, lastName)

\* the guard on an absent table, then the try block under its catch
findPIEmail(firstName, lastName) ==
  IF ~Truthy(emailDatabase) THEN Null
  ELSE LET r == findPIEmailTry(firstName, lastName)
       IN IF r.t = "throw" THEN Null ELSE r

\* ------------------------------------------------------------ input pools
RECURSIVE SeqsUpTo(_, _)
SeqsUpTo(S, n) ==
  IF n = 0 THEN {<<>>}
  ELSE LET shorter == SeqsUpTo(S, n - 1)
       IN shorter \cup {Append(s, x) : s \in {q \in shorter : Len(q) = n - 1}, x \in S}

RowPool ==
  { Row(Str(<<"J","o">>), Str(<<"N","g">>), Str(<<"N","G",","," ","J","O">>),
        Str(<<"J","@","x"," ">>)),
    Row(Str(<<" ","J","O">>), Str(<<"n","g"," ">>), Str(<<>>), Str(<<"j","@","x">>)),
    Row(Str(<<"j","o">>), Str(<<"N","G">>), Str(<<>>), Str(<<"n","@","y">>)),
    Row(Str(<<"A","l">>), Str(<<"W","u">>),
        Str(<<"A","l"," ","W","u",";"," ","J","o"," ","N","g">>), Str(<<"a","@","z">>)),
    Row(Str(<<"J","o">>), Str(<<"N","g">>), Str(<<>>), Num(<<"4","2">>)),
    Row(Str(<<"J","o">>), Str(<<"N","g">>), Undefined, Str(<<" "," ">>)),
    Row(Undefined, Undefined, Undefined, Undefined) }

FirstNames ==
  { Str(<<"j","o">>), Str(<<" ","j","O"," ">>), Str(<<"J","O">>), Str(<<"a","l">>),
    Str(<<>>), Undefined, Null }

LastNames ==
  { Str(<<"n","g">>), Str(<<"N","G"," ">>), Str(<<"w","u">>), Undefined, Num(<<"7">>) }

Missing == [t |-> "missing", v |-> <<>>]
Corrupt == [t |-> "corrupt", v |-> <<>>]

Files(rows) == {Missing, Corrupt} \cup {Arr(tb) : tb \in SeqsUpTo(rows, MaxRows)}

NoLookup == [called |-> FALSE, firstName |-> Undefined, lastName |-> Undefined,
             result |-> Undefined]
NoUpstream == [kind |-> "none"]
NoResponse == [kind |-> "none", upstream |-> NoUpstream, status |-> 0, body |-> <<>>]
Reqs == 1..MaxReqs

\* --------------------------------------------------------------- startup
InitWith(rows) ==
  /\ isDevelopment \in BOOLEAN
  /\ requireDefined \in BOOLEAN
  /\ spreadsheet \in Files(rows)
  /\ emailDatabase = Null
  /\ phase = "init"
  /\ pc = [r \in Reqs |-> "idle"]
  /\ calls = [r \in Reqs |-> 0]
  /\ responses = [r \in Reqs |-> 0]
  /\ lastResponse = NoResponse
  /\ lookup = NoLookup

\* the try block that loads the table. The file is an ES module (import,
\* import.meta.url), and its try block calls require('fs') before xlsx.readFile:
\* where the runtime binds no `require` in module scope (Node's ES modules) that
\* call raises a ReferenceError and the catch leaves the table null, whatever the
\* spreadsheet holds; a runtime that binds it goes on to readFile and
\* sheet_to_json, which raise on a missing or unreadable file.
loadedTable ==
  IF ~requireDefined THEN Null
  ELSE IF spreadsheet.t # "array" THEN Null
  ELSE spreadsheet

\* the module body up to app.listen
Startup ==
  /\ phase = "init"
  /\ emailDatabase' = loadedTable
  /\ phase' = "serving"
  /\ UNCHANGED <<env, pc, calls, responses, lastResponse, lookup>>

\* a direct call of findPIEmail
Lookup ==
  /\ phase = "serving"
  /\ \E firstName \in FirstNames, lastName \in LastNames :
       lookup' = [called |-> TRUE, firstName |-> firstName, lastName |-> lastName,
                  result |-> findPIEmail(firstName, lastName)]
  /\ UNCHANGED <<env, emailDatabase, phase, pc, calls, responses, lastResponse>>

InitMatcher == InitWith(RowPool)
NextMatcher == Startup \/ Lookup
SpecMatcher == InitMatcher /\ [][NextMatcher]_vars
\* ------------------------------------------------------------ GET /health
\* emailDatabase?.length || 0
emailDatabaseSize == IF Truthy(emailDatabase) THEN Len(emailDatabase.v) ELSE 0

Health ==
  /\ phase = "serving"
  /\ lastResponse' =
       [kind |-> "health", upstream |-> NoUpstream, status |-> 200,
        body |-> [status |-> "healthy",
                  environment |-> IF isDevelopment THEN "development" ELSE "production",
                  emailDatabaseSize |-> emailDatabaseSize]]
  /\ UNCHANGED <<env, emailDatabase, phase, pc, calls, responses, lookup>>

\* ------------------------------------------------------- POST /api/search
\* obj.field of a JSON object: undefined when the field is not there
get(obj, field) == IF field \in DOMAIN obj THEN obj[field] ELSE Undefined

\* {...obj, field: value}
spread(obj, field, value) ==
  [f \in DOMAIN obj \cup {field} |-> IF f = field THEN value ELSE obj[f]]

Sentinel ==
  Str(<<"E","m","a","i","l"," ","n","o","t"," ","f","o","u","n","d"," ",
        "i","n"," ","d","a","t","a","b","a","s","e">>)

\* the map callback writing email as returned, without `|| sentinel`
enrichProjectNoSentinel(project) ==
  IF get(project, "principal_investigators").t # "array" THEN Throw
  ELSE LET investigators == project.principal_investigators.v
       IN IF Len(investigators) = 0 THEN project
          ELSE LET pi == investigators[1]
                   email == findPIEmail(get(pi, "first_name"), get(pi, "last_name"))
               IN IF email.t = "throw" THEN Throw
                  ELSE spread(project, "principal_investigators",
                              Arr(<<spread(pi, "email", email)>> \o Tail(investigators)))

\* the map callback without ...project.principal_investigators.slice(1)
enrichProjectFirstOnly(project) ==
  IF get(project, "principal_investigators").t # "array" THEN Throw
  ELSE LET investigators == project.principal_investigators.v
       IN IF Len(investigators) = 0 THEN project
          ELSE LET pi == investigators[1]
                   email == findPIEmail(get(pi, "first_name"), get(pi, "last_name"))
               IN IF email.t = "throw" THEN Throw
                  ELSE spread(project, "principal_investigators",
                              Arr(<<spread(pi, "email", Or(email, Sentinel))>>))

\* the map callback: the enriched project, or Throw when
\* project.principal_investigators[0] is read on a record without the field or
\* an exception leaves findPIEmail
enrichProject(project) ==
  IF get(project, "principal_investigators").t # "array" THEN Throw
  ELSE LET investigators == project.principal_investigators.v
       IN IF Len(investigators) = 0 THEN project
          ELSE LET pi == investigators[1]
                   email == findPIEmail(get(pi, "first_name"), get(pi, "last_name"))
               IN IF email.t = "throw" THEN Throw
                  ELSE spread(project, "principal_investigators",
                              Arr(<<spread(pi, "email", Or(email, Sentinel))>>
                                  \o Tail(investigators)))

\* whether the map callback ended with an exception
threw(x) == "t" \in DOMAIN x

FailureMessage == "Failed to fetch research opportunities. Please try again."

\* the catch block: res.status(500).json({error, details, status})
errorResponse(message, status) ==
  [status |-> 500,
   body |-> [error |-> FailureMessage, details |-> message, status |-> status]]

\* what the handler writes once axios.post has settled with `outcome`
searchRespond(outcome) ==
  IF outcome.kind = "network"
    THEN errorResponse("getaddrinfo ENOTFOUND api.reporter.nih.gov", Undefined)
  ELSE IF outcome.kind = "http"
    THEN errorResponse("Request failed with status code 404", outcome.status)
  ELSE IF ~Truthy(get(outcome.data, "results"))
    THEN errorResponse("No results array in NIH API response", Undefined)
  ELSE LET results == outcome.data.results.v
           resultsWithEmail == [i \in 1..Len(results) |-> enrichProject(results[i])]
       IN IF \E i \in 1..Len(results) : threw(resultsWithEmail[i])
            THEN errorResponse("Cannot read properties of undefined (reading '0')",
                               Undefined)
            ELSE [status |-> 200,
                  body |-> spread(outcome.data, "results", Arr(resultsWithEmail))]

\* upstream responses
PI(first, last, id) == [first_name |-> first, last_name |-> last, profile_id |-> id]

ProjectPool ==
  { [project_num |-> 1,
     principal_investigators |->
       Arr(<<[first_name |-> Str(<<"J","o"," ">>), last_name |-> Str(<<"n","g">>),
              profile_id |-> 11, email |-> Str(<<"o","l","d">>)],
             PI(Str(<<"A","l">>), Str(<<"W","u">>), 12)>>)],
    [project_num |-> 2, principal_investigators |-> Arr(<<>>)],
    [project_num |-> 3] }

Meta == [total |-> 7, offset |-> 0]

Outcomes ==
  { [kind |-> "network", status |-> Undefined, data |-> <<>>],
    [kind |-> "http", status |-> Num(<<"4","0","4">>), data |-> <<>>],
    [kind |-> "ok", status |-> Num(<<"2","0","0">>), data |-> [meta |-> Meta]] }
  \cup { [kind |-> "ok", status |-> Num(<<"2","0","0">>),
          data |-> [meta |-> Meta, results |-> Arr(ps)]] :
         ps \in SeqsUpTo(ProjectPool, MaxResults) }

\* the handler up to its await: one axios.post is issued
SearchReceive(r) ==
  /\ phase = "serving"
  /\ pc[r] \in {"idle", "done"}
  /\ pc' = [pc EXCEPT ![r] = "awaiting"]
  /\ calls' = [calls EXCEPT ![r] = 1]
  /\ responses' = [responses EXCEPT ![r] = 0]
  /\ UNCHANGED <<env, emailDatabase, phase, lastResponse, lookup>>

\* the handler calling upstream once more after a failure
SearchResumeRetry(r) ==
  /\ pc[r] = "awaiting"
  /\ \E outcome \in Outcomes :
       LET response == searchRespond(outcome)
       IN
       IF response.status = 500 /\ calls[r] < 2
         THEN /\ calls' = [calls EXCEPT ![r] = @ + 1]
              /\ UNCHANGED <<pc, responses, lastResponse>>
         ELSE /\ lastResponse' = [kind |-> "search", upstream |-> outcome,
                                  status |-> response.status, body |-> response.body]
              /\ pc' = [pc EXCEPT ![r] = "done"]
              /\ responses' = [responses EXCEPT ![r] = @ + 1]
              /\ UNCHANGED calls
  /\ UNCHANGED <<env, emailDatabase, phase, lookup>>

\* the handler consuming the table (emailDatabase.shift()) while it answers
SearchResumeShifting(r) ==
  /\ pc[r] = "awaiting"
  /\ \E outcome \in Outcomes :
       LET response == searchRespond(outcome)
       IN lastResponse' = [kind |-> "search", upstream |-> outcome,
                           status |-> response.status, body |-> response.body]
  /\ pc' = [pc EXCEPT ![r] = "done"]
  /\ responses' = [responses EXCEPT ![r] = @ + 1]
  /\ emailDatabase' = IF Truthy(emailDatabase) /\ Len(emailDatabase.v) > 0
                        THEN Arr(Tail(emailDatabase.v)) ELSE emailDatabase
  /\ UNCHANGED <<env, phase, calls, lookup>>

\* the handler from the settled axios.post to the response it writes
SearchResume(r) ==
  /\ pc[r] = "awaiting"
  /\ \E outcome \in Outcomes :
       LET response == searchRespond(outcome)
       IN lastResponse' = [kind |-> "search", upstream |-> outcome,
                           status |-> response.status, body |-> response.body]
  /\ pc' = [pc EXCEPT ![r] = "done"]
  /\ responses' = [responses EXCEPT ![r] = @ + 1]
  /\ UNCHANGED <<env, emailDatabase, phase, calls, lookup>>

ServerRowPool ==
  { Row(Str(<<"J","o">>), Str(<<"N","g">>), Str(<<>>), Str(<<"J","@","x"," ">>)),
    Row(Str(<<"j","o">>), Str(<<"N","G">>), Undefined, Str(<<" "," ">>)) }

Init == InitWith(ServerRowPool)
Next ==
  \/ Startup
  \/ Health
  \/ \E r \in Reqs : SearchReceive(r)
  \/ \E r \in Reqs : SearchResume(r)
Spec == Init /\ [][Next]_vars

\* ------------------------------------------------- claims on the matcher
TrimUpper(x) == toUpperCase(trim(x.v))
TrimLower(x) == toLowerCase(trim(x.v))
Table == emailDatabase.v
IsString(x) == x.t = "string"

AllStrings ==
  \A i \in 1..Len(Table) :
     /\ IsString(Table[i].ContactPIFirstName) /\ IsString(Table[i].ContactPILastName)
     /\ IsString(Table[i].PINamesAll) /\ IsString(Table[i].ContactPIEmail)

\* the rows whose trimmed-uppercased names equal the trimmed-uppercased inputs
SameName(firstName, lastName) ==
  {i \in 1..Len(Table) :
     /\ TrimUpper(Table[i].ContactPIFirstName) = TrimUpper(firstName)
     /\ TrimUpper(Table[i].ContactPILastName) = TrimUpper(lastName)}

\* the rows whose uppercased "PI Name(s) All" holds "FIRST LAST" of the normalized inputs
NamedInAll(firstName, lastName) ==
  {i \in 1..Len(Table) :
     includes(toUpperCase(Table[i].PINamesAll.v),
              TrimUpper(firstName) \o <<" ">> \o TrimUpper(lastName))}

\* the distinct trimmed, lowercased, non-empty e-mails of rows idx, each once,
\* in order of first occurrence
DistinctEmails(idx) ==
  LET wanted == {TrimLower(Table[i].ContactPIEmail) : i \in idx} \ {<<>>}
      first(e) == CHOOSE i \in idx :
                     /\ TrimLower(Table[i].ContactPIEmail) = e
                     /\ \A j \in idx : TrimLower(Table[j].ContactPIEmail) = e => i <= j
      n == Cardinality(wanted)
  IN IF n = 0 THEN <<>>
     ELSE CHOOSE s \in [1..n -> wanted] :
            \A a, b \in 1..n : a < b => first(s[a]) < first(s[b])

StringLookup ==
  /\ lookup.called /\ emailDatabase.t = "array" /\ Len(Table) > 0 /\ AllStrings
  /\ IsString(lookup.firstName) /\ IsString(lookup.lastName)

C1Case == StringLookup /\ SameName(lookup.firstName, lookup.lastName) # {}

\* C1: on a populated all-string table, a lookup by any casing or white-space
\* variant of a record's first and last name returns the "; "-join of the
\* distinct trimmed, lowercased, non-empty e-mails of the records with the same
\* trimmed-uppercased names, in order of first occurrence; the result depends on
\* the variant only through its normalized form and holds the record's own e-mail.
C1_ExactLookup ==
  C1Case =>
    LET idx == SameName(lookup.firstName, lookup.lastName)
    IN /\ lookup.result = Str(join(DistinctEmails(idx), Separator))
       /\ \A i \in idx : includes(lookup.result.v, TrimLower(Table[i].ContactPIEmail))

C1_Witness ==
  /\ C1Case
  /\ lookup.firstName = Str(<<" ","j","O"," ">>) /\ lookup.lastName = Str(<<"N","G"," ">>)
  /\ Cardinality(SameName(lookup.firstName, lookup.lastName)) = 2
  /\ includes(lookup.result.v, Separator)

C2Case ==
  /\ StringLookup
  /\ SameName(lookup.firstName, lookup.lastName) = {}
  /\ NamedInAll(lookup.firstName, lookup.lastName) # {}

\* C2: when no record matches exactly and the normalized "FIRST LAST" is a
\* substring of the uppercased "PI Name(s) All" of some record, the result is the
\* deduplicated "; "-join of the e-mails of all such records, and not null.
C2_FallbackNormalized ==
  C2Case =>
    lookup.result =
      Str(join(DistinctEmails(NamedInAll(lookup.firstName, lookup.lastName)), Separator))

\* the rows the strategy in use selects: the exact matches, else the full-name matches
selected(firstName, lastName) ==
  IF Len(matches(firstName, lastName)) > 0 THEN matches(firstName, lastName)
  ELSE fullNameMatches(firstName, lastName)

Malformed(row) == Truthy(row.ContactPIEmail) /\ ~IsString(row.ContactPIEmail)

C5Case ==
  /\ lookup.called /\ emailDatabase.t = "array"
  /\ \E i \in 1..Len(selected(lookup.firstName, lookup.lastName)) :
        Malformed(selected(lookup.firstName, lookup.lastName)[i])

\* C5 as claimed: a row that raises is skipped alone; the e-mails of the other,
\* well-formed rows matching the queried name are still returned.
C5_OnlyThatRow ==
  C5Case =>
    LET sel == selected(lookup.firstName, lookup.lastName)
    IN \A i \in 1..Len(sel) :
         (IsString(sel[i].ContactPIEmail) /\ TrimLower(sel[i].ContactPIEmail) # <<>>)
           => /\ lookup.result.t = "string"
              /\ includes(lookup.result.v, TrimLower(sel[i].ContactPIEmail))

\* C5 amended: a row that raises while findPIEmail processes the selected rows
\* makes the whole lookup "no match": nothing is propagated and null is returned,
\* also when other, well-formed rows match the queried name.
C5_WholeLookupNull == C5Case => lookup.result = Null

C5_Witness ==
  /\ C5Case
  /\ \E i \in 1..Len(selected(lookup.firstName, lookup.lastName)) :
        LET row == selected(lookup.firstName, lookup.lastName)[i]
        IN IsString(row.ContactPIEmail) /\ TrimLower(row.ContactPIEmail) # <<>>
  /\ lookup.result = Null

\* C7: with the table absent the process is serving and every findPIEmail call,
\* whatever its arguments, returns null and throws nothing.
C7_AbsentTableNull ==
  (phase = "serving" /\ emailDatabase = Null) =>
     /\ ENABLED Lookup
     /\ lookup.called => lookup.result = Null

C7_Witness ==
  /\ phase = "serving" /\ emailDatabase = Null /\ spreadsheet = Missing
  /\ lookup.called /\ lookup.firstName = Undefined /\ lookup.lastName = Num(<<"7">>)
  /\ lookup.result = Null
\* --------------------------------------------------- claims on the relay
Success == lastResponse.kind = "search" /\ lastResponse.status = 200
Upstream == lastResponse.upstream.data.results.v
Emitted == lastResponse.body.results.v

\* the record has a first investigator
HasFirst(project) ==
  /\ get(project, "principal_investigators").t = "array"
  /\ Len(project.principal_investigators.v) > 0

FirstOf(project) == project.principal_investigators.v[1]

Found(project) ==
  findPIEmail(get(FirstOf(project), "first_name"), get(FirstOf(project), "last_name"))

\* C3 as claimed: in a successful response every first investigator's email is
\* the value findPIEmail returned when that is not null, and the sentinel when
\* findPIEmail returned null.
C3_EmailOrSentinelIfNull ==
  Success =>
    \A i \in 1..Len(Upstream) :
       HasFirst(Upstream[i]) =>
         FirstOf(Emitted[i]).email =
           IF Found(Upstream[i]) = Null THEN Sentinel ELSE Found(Upstream[i])

\* C3 amended: in a successful response every first investigator's email is the
\* value findPIEmail returned when that is a non-empty string, and the sentinel
\* when findPIEmail returned null or the empty string.
C3_EmailOrSentinelIfFalsy ==
  Success =>
    \A i \in 1..Len(Upstream) :
       HasFirst(Upstream[i]) =>
         FirstOf(Emitted[i]).email =
           IF Found(Upstream[i]) = Null \/ Found(Upstream[i]) = Str(<<>>)
             THEN Sentinel ELSE Found(Upstream[i])

C3_Witness ==
  /\ Success
  /\ \E i \in 1..Len(Upstream) :
        /\ HasFirst(Upstream[i])
        /\ Found(Upstream[i]) = Str(<<>>)
        /\ FirstOf(Emitted[i]).email = Sentinel

UpstreamHasResults ==
  /\ lastResponse.kind = "search"
  /\ lastResponse.upstream.kind = "ok"
  /\ get(lastResponse.upstream.data, "results").t = "array"

\* C4: an upstream response holding a record without investigators (the sequence
\* empty or not present) is answered successfully, with that record unchanged and
\* every other record enriched.
C4_NoInvestigatorsPassThrough ==
  (UpstreamHasResults /\ \E i \in 1..Len(Upstream) : ~HasFirst(Upstream[i])) =>
     /\ lastResponse.status = 200
     /\ \A i \in 1..Len(Upstream) :
          IF HasFirst(Upstream[i])
            THEN "email" \in DOMAIN FirstOf(Emitted[i])
            ELSE Emitted[i] = Upstream[i]

Failed(outcome) ==
  \/ outcome.kind \in {"network", "http"}
  \/ /\ outcome.kind = "ok"
     /\ "results" \notin DOMAIN outcome.data

Detail(outcome) ==
  CASE outcome.kind = "network" -> "getaddrinfo ENOTFOUND api.reporter.nih.gov"
    [] outcome.kind = "http" -> "Request failed with status code 404"
    [] OTHER -> "No results array in NIH API response"

\* C8: a request issues at most one upstream call and never a second; when the
\* call fails or its response lacks results, the request ends with exactly one
\* response, HTTP 500, carrying the fixed message, the error's message and the
\* upstream status code if there is one; the process keeps serving.
C8_SingleCallUniformError ==
  /\ \A r \in Reqs :
       /\ calls[r] <= 1 /\ responses[r] <= 1
       /\ pc[r] = "awaiting" => (calls[r] = 1 /\ responses[r] = 0)
       /\ pc[r] = "done" => (calls[r] = 1 /\ responses[r] = 1)
  /\ (lastResponse.kind = "search" /\ Failed(lastResponse.upstream)) =>
       /\ lastResponse.status = 500
       /\ lastResponse.body =
            [error |-> FailureMessage,
             details |-> Detail(lastResponse.upstream),
             status |-> IF lastResponse.upstream.kind = "http"
                          THEN lastResponse.upstream.status ELSE Undefined]
       /\ phase = "serving"
       /\ \A r \in Reqs : pc[r] # "awaiting" => ENABLED SearchReceive(r)

C8_Witness ==
  /\ lastResponse.kind = "search" /\ lastResponse.upstream.kind = "http"
  /\ lastResponse.status = 500
  /\ lastResponse.body.status = Num(<<"4","0","4">>)
  /\ \E r \in Reqs : pc[r] = "done" /\ calls[r] = 1 /\ responses[r] = 1

\* C9: a successful response equals the upstream response except for the first
\* investigator's email: the other top-level fields, the length and order of
\* results, each record's other fields, the investigators after the first and
\* the first investigator's own fields are unchanged.
C9_Frame ==
  Success =>
    LET data == lastResponse.upstream.data
        body == lastResponse.body
    IN /\ DOMAIN body = DOMAIN data
       /\ \A f \in DOMAIN data \ {"results"} : body[f] = data[f]
       /\ Len(Emitted) = Len(Upstream)
       /\ \A i \in 1..Len(Upstream) :
            /\ DOMAIN Emitted[i] = DOMAIN Upstream[i]
            /\ \A f \in DOMAIN Upstream[i] \ {"principal_investigators"} :
                 Emitted[i][f] = Upstream[i][f]
            /\ LET old == Upstream[i].principal_investigators.v
                   new == Emitted[i].principal_investigators.v
               IN /\ Len(new) = Len(old)
                  /\ \A j \in 2..Len(old) : new[j] = old[j]
                  /\ Len(old) > 0 =>
                       /\ DOMAIN new[1] = DOMAIN old[1] \cup {"email"}
                       /\ \A f \in DOMAIN old[1] \ {"email"} : new[1][f] = old[1][f]

C9_Witness ==
  /\ Success
  /\ Len(Upstream) = 2
  /\ Len(Upstream[1].principal_investigators.v) = 0
  /\ Len(Upstream[2].principal_investigators.v) = 2
  /\ Emitted[2].principal_investigators.v[1].email # Str(<<"o","l","d">>)
  /\ Emitted[2].principal_investigators.v[2] = Upstream[2].principal_investigators.v[2]

\* the response is the one the handler gives that upstream outcome on its own
ResponseDetermined ==
  lastResponse.kind = "search" =>
    LET alone == searchRespond(lastResponse.upstream)
    IN lastResponse.status = alone.status /\ lastResponse.body = alone.body

TableFrozen == phase = "serving" => emailDatabase' = emailDatabase

\* C10: under every interleaving of /api/search and /health requests the e-mail
\* table is not modified after startup and each response is determined by the
\* request's own upstream response and the table alone.
C10_Isolation == [](ResponseDetermined) /\ [][TableFrozen]_vars

C10_Witness ==
  /\ Truthy(emailDatabase) /\ Len(emailDatabase.v) = 2
  /\ pc[1] = "awaiting" /\ pc[2] = "done"
  /\ Success /\ Len(Upstream) > 0

\* C6: after startup, a spreadsheet that exists and parses into n rows is the
\* e-mail table (not absent) and /health reports emailDatabaseSize = n; after a
\* failed load the table is absent and /health reports 0.
C6_LoadedAndReported ==
  phase = "serving" =>
    IF spreadsheet.t = "array"
      THEN /\ emailDatabase = spreadsheet
           /\ lastResponse.kind = "health" =>
                lastResponse.body.emailDatabaseSize = Len(spreadsheet.v)
      ELSE /\ emailDatabase = Null
           /\ lastResponse.kind = "health" => lastResponse.body.emailDatabaseSize = 0
====
